---------------------------- MODULE Spec2Model ----------------------------
(***************************************************************************)
(* State-machine model of the scriptures terminal reader: the corpus       *)
(* loader (app.rs, Scriptures), the navigation state (app.rs, App), the    *)
(* key and mouse handlers (handler.rs) and the render cycle (ui.rs).       *)
(*                                                                         *)
(* Indices are 0-based as in the source; At(s, i) reads element i of a     *)
(* sequence.  A usize value is represented by the integer congruent to it  *)
(* modulo 2^64 that is nearest to zero, so usize::MAX is written -1.       *)
(* A panic of the process is the flag `panicked`; a panicked process takes *)
(* no further step.                                                        *)
(***************************************************************************)
EXTENDS Integers, Sequences, FiniteSets, TLC

VARIABLES
    data,             \* App.data : Scriptures, immutable after construction
    overflow_checks,  \* build profile: TRUE = integer overflow panics (debug)
    running,          \* App.running
    column_selected,  \* App.column_selected
    works_state,      \* App.works_state.selected()  (always Some(i))
    books_state,      \* App.books_state.selected()
    chapters_state,   \* App.chapters_state.selected()
    text_rect,        \* App.text_rect
    text_scroll,      \* App.text_scroll : u16
    footnote_rect,    \* App.footnote_rect
    footnote_scroll,  \* App.footnote_scroll : u16
    panicked,         \* the process has aborted
    pc,               \* which part of the program is being exercised
    source,           \* the backing source Scriptures::new reads
    html,             \* the raw chapter handed to Chapter::text and
                      \* Chapter::footnotes_text
    result            \* what the last call on html or on a marker returned

vars == <<data, overflow_checks, running, column_selected, works_state,
          books_state, chapters_state, text_rect, text_scroll,
          footnote_rect, footnote_scroll, panicked, pc, source, html,
          result>>

---------------------------------------------------------------------------
(* Bounds of the model *)

\* Largest magnitude an index may drift to in an unchecked build over an
\* empty collection (there `len() - 1` wraps and the index keeps moving).
MaxIndex == 2

---------------------------------------------------------------------------
(* Program constants *)

NUM_COLUMNS == 3

U16_MAX == 65535

\* Widths of the fixed horizontal chunks before the chapter pane: the three
\* list columns, each followed by a one-column separator.
CHAPTER_PANE_X == 8 + 1 + 20 + 1 + 16 + 1

TEXT_PERCENT == 80

---------------------------------------------------------------------------
(* Helpers *)

Min(a, b) == IF a <= b THEN a ELSE b

Max(a, b) == IF a >= b THEN a ELSE b

At(s, i) == s[i + 1]

\* Rust's bounds check of s[i] for a usize i (a negative representative
\* stands for a value near 2^64).
InBounds(s, i) == i >= 0 /\ i < Len(s)

RECURSIVE SumSeq(_)
SumSeq(s) == IF s = <<>> THEN 0 ELSE Head(s) + SumSeq(Tail(s))

---------------------------------------------------------------------------
(* The corpus: Scriptures, Work, Book, Chapter *)

\* A chapter carries its title and the two styled text models its markup
\* renders to, each as the sequence of display widths of its lines.
Chapter(title, text, footnotes) ==
    [title |-> title, text |-> text, footnotes |-> footnotes]

Book(title, chapters) == [title |-> title, chapters |-> chapters]

Work(title, books) == [title |-> title, books |-> books]

SqliteRow(book_title, chapter) ==
    [book_title |-> book_title, chapter |-> chapter]

DATABASES == <<"OT", "NT", "BoM", "D&C", "PoGP">>

Unreadable == "unreadable"

\* What each database holds when it is readable and its join is not empty.
Contents ==
    << << SqliteRow("Gen", Chapter("Gen 1", <<1>>, <<>>)),
          SqliteRow("Exo", Chapter("Exo 1", <<1>>, <<1>>)),
          SqliteRow("Exo", Chapter("Exo 2", <<2, 0, 7>>, <<2>>)) >>,
       << SqliteRow("Mat", Chapter("Mat 1", <<2>>, <<3>>)) >>,
       << SqliteRow("1Ne", Chapter("1Ne 1", <<1>>, <<1>>)),
          SqliteRow("2Ne", Chapter("2Ne 1", <<0>>, <<>>)) >>,
       << SqliteRow("", Chapter("Sec 1", <<2, 2>>, <<>>)) >>,
       << SqliteRow("Mos", Chapter("Mos 1", <<3>>, <<>>)),
          SqliteRow("Abr", Chapter("Abr 1", <<1>>, <<>>)),
          SqliteRow("Mos", Chapter("Mos 2", <<1>>, <<2>>)) >> >>

\* A backing source: per database, unreadable, or the rows its query returns.
Sources ==
    { s \in [1..Len(DATABASES) -> {Unreadable, "empty", "rows"}] : TRUE }

RowsOf(s, k) == IF s[k] = "rows" THEN Contents[k] ELSE <<>>

\* The row loop of new_failable for one database: returns its books.
RECURSIVE load_books(_, _, _, _)
load_books(rows, books, book_title, chapters) ==
    IF rows = <<>>
    THEN IF chapters # <<>>
         THEN Append(books, Book(book_title, chapters))
         ELSE books
    ELSE LET row == Head(rows)
             changed == book_title # row.book_title
             books1 == IF changed /\ chapters # <<>>
                       THEN Append(books, Book(book_title, chapters))
                       ELSE books
             title1 == IF changed THEN row.book_title ELSE book_title
             chapters1 == IF changed THEN <<>> ELSE chapters
         IN load_books(Tail(rows), books1, title1,
                       Append(chapters1, row.chapter))

\* Mutant: an unreadable database is skipped instead of failing the load.
RECURSIVE new_failable_from_skip(_, _, _)
new_failable_from_skip(s, k, works) ==
    IF k > Len(DATABASES)
    THEN [ok |-> TRUE, works |-> works]
    ELSE IF s[k] = Unreadable
         THEN new_failable_from_skip(s, k + 1, works)
         ELSE new_failable_from_skip(s, k + 1,
                  Append(works,
                         Work(DATABASES[k],
                              load_books(RowsOf(s, k), <<>>, "", <<>>))))

\* The database loop of new_failable: an unreadable source returns Err.
RECURSIVE new_failable_from(_, _, _)
new_failable_from(s, k, works) ==
    IF k > Len(DATABASES)
    THEN [ok |-> TRUE, works |-> works]
    ELSE IF s[k] = Unreadable
         THEN [ok |-> FALSE, works |-> <<>>]
         ELSE new_failable_from(s, k + 1,
                  Append(works,
                         Work(DATABASES[k],
                              load_books(RowsOf(s, k), <<>>, "", <<>>))))

new_failable(s) == new_failable_from(s, 1, <<>>)

\* Scriptures::new: unwrap_or_default.
Scriptures_new(s) ==
    LET r == new_failable(s)
    IN IF r.ok THEN [works |-> r.works] ELSE [works |-> <<>>]


---------------------------------------------------------------------------
(* App: the navigation state as a record, and its methods as operators *)

Rect(x, y, width, height) ==
    [x |-> x, y |-> y, width |-> width, height |-> height]

Rect_default == Rect(0, 0, 0, 0)

\* The App value held by the variables.
app ==
    [running |-> running, column_selected |-> column_selected,
     works_state |-> works_state, books_state |-> books_state,
     chapters_state |-> chapters_state,
     text_rect |-> text_rect, text_scroll |-> text_scroll,
     footnote_rect |-> footnote_rect, footnote_scroll |-> footnote_scroll,
     panicked |-> panicked]

App_default ==
    [running |-> TRUE, column_selected |-> 0,
     works_state |-> 0, books_state |-> 0, chapters_state |-> 0,
     text_rect |-> Rect_default, text_scroll |-> 0,
     footnote_rect |-> Rect_default, footnote_scroll |-> 0,
     panicked |-> FALSE]

Panic(a) == [a EXCEPT !.panicked = TRUE]

quit(a) == [a EXCEPT !.running = FALSE]

\* The three index expressions of current_chapter, each bounds-checked.
HasWork(a) == InBounds(data.works, a.works_state)

current_work(a) == At(data.works, a.works_state)

HasBook(a) == HasWork(a) /\ InBounds(current_work(a).books, a.books_state)

current_book(a) == At(current_work(a).books, a.books_state)

HasChapter(a) ==
    HasBook(a) /\ InBounds(current_book(a).chapters, a.chapters_state)

current_chapter(a) == At(current_book(a).chapters, a.chapters_state)

chapter_text(a) == current_chapter(a).text

chapter_footnotes_text(a) == current_chapter(a).footnotes

\* The wraparound step shared by update_works / update_books /
\* update_chapters: Some(i) with the containing collection of length len.
\* `len - 1` is evaluated on every down step and on an up step from 0; with
\* len = 0 it overflows: a panic when overflow is checked, else usize::MAX.
NextIndexOverflows(i, len, down) == len = 0 /\ (down \/ i = 0)


\* Mutant: the down step wraps one position late.
NextIndex_late_wrap(i, len, down) ==
    IF down
    THEN IF i = len THEN 0 ELSE i + 1
    ELSE IF i = 0 THEN len - 1 ELSE i - 1

NextIndex(i, len, down) ==
    IF down
    THEN IF i = len - 1 THEN 0 ELSE i + 1
    ELSE IF i = 0 THEN len - 1 ELSE i - 1


\* Mutant: a work change that forgets to reset the book selection.
update_works_keep_books(a, down) ==
    LET len == Len(data.works)
    IN IF NextIndexOverflows(a.works_state, len, down) /\ overflow_checks
       THEN Panic(a)
       ELSE [a EXCEPT !.works_state = NextIndex(a.works_state, len, down),
                      !.chapters_state = 0,
                      !.text_scroll = 0,
                      !.footnote_scroll = 0]

update_works(a, down) ==
    LET len == Len(data.works)
    IN IF NextIndexOverflows(a.works_state, len, down) /\ overflow_checks
       THEN Panic(a)
       ELSE [a EXCEPT !.works_state = NextIndex(a.works_state, len, down),
                      !.books_state = 0,
                      !.chapters_state = 0,
                      !.text_scroll = 0,
                      !.footnote_scroll = 0]


\* Mutant: a book change that forgets to reset the body-text scroll.
update_books_keep_scroll(a, down) ==
    LET reads == down \/ a.books_state = 0
    IN IF reads /\ ~HasWork(a)
       THEN Panic(a)
       ELSE LET len == IF reads THEN Len(current_work(a).books) ELSE 1
            IN IF NextIndexOverflows(a.books_state, len, down)
                  /\ overflow_checks
               THEN Panic(a)
               ELSE [a EXCEPT !.books_state =
                                  NextIndex(a.books_state, len, down),
                              !.chapters_state = 0,
                              !.footnote_scroll = 0]

\* Mutant: a book change that wraps at the length of the first work's books
\* instead of the selected work's.
update_books_first_work(a, down) ==
    LET reads == down \/ a.books_state = 0
    IN IF reads /\ ~InBounds(data.works, 0)
       THEN Panic(a)
       ELSE LET len == IF reads THEN Len(At(data.works, 0).books) ELSE 1
            IN IF NextIndexOverflows(a.books_state, len, down)
                  /\ overflow_checks
               THEN Panic(a)
               ELSE [a EXCEPT !.books_state =
                                  NextIndex(a.books_state, len, down),
                              !.chapters_state = 0,
                              !.text_scroll = 0,
                              !.footnote_scroll = 0]

\* The length of the selected work's books is read on a down step and on
\* an up step from 0; reading it indexes works.
update_books(a, down) ==
    LET reads == down \/ a.books_state = 0
    IN IF reads /\ ~HasWork(a)
       THEN Panic(a)
       ELSE LET len == IF reads THEN Len(current_work(a).books) ELSE 1
            IN IF NextIndexOverflows(a.books_state, len, down)
                  /\ overflow_checks
               THEN Panic(a)
               ELSE [a EXCEPT !.books_state =
                                  NextIndex(a.books_state, len, down),
                              !.chapters_state = 0,
                              !.text_scroll = 0,
                              !.footnote_scroll = 0]

\* Mutant: a chapter change that also goes back to the first book.
update_chapters_resets_book(a, down) ==
    LET reads == down \/ a.chapters_state = 0
    IN IF reads /\ ~HasBook(a)
       THEN Panic(a)
       ELSE LET len == IF reads THEN Len(current_book(a).chapters) ELSE 1
            IN IF NextIndexOverflows(a.chapters_state, len, down)
                  /\ overflow_checks
               THEN Panic(a)
               ELSE [a EXCEPT !.books_state = 0,
                              !.chapters_state =
                                  NextIndex(a.chapters_state, len, down),
                              !.text_scroll = 0,
                              !.footnote_scroll = 0]

update_chapters(a, down) ==
    LET reads == down \/ a.chapters_state = 0
    IN IF reads /\ ~HasBook(a)
       THEN Panic(a)
       ELSE LET len == IF reads THEN Len(current_book(a).chapters) ELSE 1
            IN IF NextIndexOverflows(a.chapters_state, len, down)
                  /\ overflow_checks
               THEN Panic(a)
               ELSE [a EXCEPT !.chapters_state =
                                  NextIndex(a.chapters_state, len, down),
                              !.text_scroll = 0,
                              !.footnote_scroll = 0]

arrow_down(a) ==
    CASE a.column_selected = 0 -> update_works(a, TRUE)
      [] a.column_selected = 1 -> update_books(a, TRUE)
      [] a.column_selected = 2 -> update_chapters(a, TRUE)
      [] OTHER -> Panic(a)

arrow_up(a) ==
    CASE a.column_selected = 0 -> update_works(a, FALSE)
      [] a.column_selected = 1 -> update_books(a, FALSE)
      [] a.column_selected = 2 -> update_chapters(a, FALSE)
      [] OTHER -> Panic(a)


\* Mutant: moving left from the first column stays there.
arrow_left_saturating(a) ==
    IF a.column_selected = 0
    THEN a
    ELSE [a EXCEPT !.column_selected = a.column_selected - 1]

arrow_left(a) ==
    IF a.column_selected = 0
    THEN [a EXCEPT !.column_selected = NUM_COLUMNS - 1]
    ELSE [a EXCEPT !.column_selected = a.column_selected - 1]


\* Mutant: moving right from the last column does not wrap.
arrow_right_no_wrap(a) ==
    [a EXCEPT !.column_selected = a.column_selected + 1]

\* Mutant: a column change that resets the scroll offsets as a selection
\* change does.
arrow_right_resets_scroll(a) ==
    IF a.column_selected = NUM_COLUMNS - 1
    THEN [a EXCEPT !.column_selected = 0,
                   !.text_scroll = 0, !.footnote_scroll = 0]
    ELSE [a EXCEPT !.column_selected = a.column_selected + 1,
                   !.text_scroll = 0, !.footnote_scroll = 0]

arrow_right(a) ==
    IF a.column_selected = NUM_COLUMNS - 1
    THEN [a EXCEPT !.column_selected = 0]
    ELSE [a EXCEPT !.column_selected = a.column_selected + 1]

---------------------------------------------------------------------------
(* handler.rs: key events *)

KeyCodes == {"Esc", "q", "c", "C", "Up", "Down", "Left", "Right", "Enter"}

KeyModifiers == {"NONE", "CONTROL", "CONTROL|SHIFT"}

KeyEvent(code, modifiers) == [code |-> code, modifiers |-> modifiers]

\* Mutant: Ctrl-C quits whenever the Control modifier is among the
\* modifiers held.
handle_key_events_any_control(key_event, a) ==
    CASE key_event.code \in {"Esc", "q"} -> quit(a)
      [] key_event.code \in {"c", "C"} ->
             IF key_event.modifiers \in {"CONTROL", "CONTROL|SHIFT"}
             THEN quit(a)
             ELSE a
      [] key_event.code = "Up" -> arrow_up(a)
      [] key_event.code = "Down" -> arrow_down(a)
      [] key_event.code = "Left" -> arrow_left(a)
      [] key_event.code = "Right" -> arrow_right(a)
      [] OTHER -> a

handle_key_events(key_event, a) ==
    CASE key_event.code \in {"Esc", "q"} -> quit(a)
      [] key_event.code \in {"c", "C"} ->
             IF key_event.modifiers = "CONTROL" THEN quit(a) ELSE a
      [] key_event.code = "Up" -> arrow_up(a)
      [] key_event.code = "Down" -> arrow_down(a)
      [] key_event.code = "Left" -> arrow_left(a)
      [] key_event.code = "Right" -> arrow_right(a)
      [] OTHER -> a

---------------------------------------------------------------------------
(* handler.rs: mouse events *)

\* Rect::left / right / top / bottom of the drawing library: right and
\* bottom are the first column and row past the rectangle (saturating).
left(r) == r.x

right(r) == Min(r.x + r.width, U16_MAX)

top(r) == r.y

bottom(r) == Min(r.y + r.height, U16_MAX)

\* The hit test the handler applies to a rectangle.
hit(r, column, row) ==
    /\ column <= right(r)
    /\ column >= left(r)
    /\ row >= top(r)
    /\ row <= bottom(r)

\* Rows one line of display width w occupies when wrapped at `width`
\* columns: an empty line still takes one row.
wrapped_rows(w, width) == IF w = 0 THEN 1 ELSE (w + width - 1) \div width

\* Paragraph::new(text).wrap(..).line_count(width): the wrapped row count of
\* a text model; a zero-width area holds no rows.
line_count(text, width) ==
    IF width < 1
    THEN 0
    ELSE SumSeq([k \in 1..Len(text) |-> wrapped_rows(text[k], width)])

\* `as u16`
as_u16(n) == n % (U16_MAX + 1)

max_scroll(text, rect) ==
    LET count == as_u16(line_count(text, rect.width))
    IN IF count < rect.height THEN 0 ELSE count - rect.height

\* u16::min(max_scroll, scroll + 1); `scroll + 1` overflows at u16::MAX.
scroll_down_overflows(scroll) == scroll + 1 > U16_MAX


\* Mutant: the increment is not clamped to the maximum offset.
scroll_down_unclamped(text, rect, scroll) == as_u16(scroll + 1)

scroll_down(text, rect, scroll) ==
    Min(max_scroll(text, rect), as_u16(scroll + 1))


\* Mutant: the decrement is not guarded and wraps below zero.
scroll_up_wrapping(scroll) == as_u16(scroll - 1 + U16_MAX + 1)

scroll_up(scroll) == IF scroll = 0 THEN 0 ELSE scroll - 1

MouseEventKinds == {"ScrollDown", "ScrollUp", "Moved"}

MouseEvent(kind, column, row) ==
    [kind |-> kind, column |-> column, row |-> row]

\* Which branch of the if / else-if chain an event's point selects.
mouse_target(ev, a) ==
    IF hit(a.text_rect, ev.column, ev.row) THEN "text"
    ELSE IF hit(a.footnote_rect, ev.column, ev.row) THEN "footnote"
    ELSE "none"

\* Mutant: a ScrollUp over the body text scrolls the footnotes up as well.
handle_mouse_events_scroll_both(ev, a) ==
    LET target == mouse_target(ev, a)
    IN CASE ev.kind = "ScrollDown" /\ target = "text" ->
               IF ~HasChapter(a) THEN Panic(a)
               ELSE IF scroll_down_overflows(a.text_scroll)
                       /\ overflow_checks
               THEN Panic(a)
               ELSE [a EXCEPT !.text_scroll =
                         scroll_down(chapter_text(a), a.text_rect,
                                     a.text_scroll)]
         [] ev.kind = "ScrollDown" /\ target = "footnote" ->
               IF ~HasChapter(a) THEN Panic(a)
               ELSE IF scroll_down_overflows(a.footnote_scroll)
                       /\ overflow_checks
               THEN Panic(a)
               ELSE [a EXCEPT !.footnote_scroll =
                         scroll_down(chapter_footnotes_text(a),
                                     a.footnote_rect, a.footnote_scroll)]
         [] ev.kind = "ScrollUp" /\ target = "text" ->
               [a EXCEPT !.text_scroll = scroll_up(a.text_scroll),
                         !.footnote_scroll = scroll_up(a.footnote_scroll)]
         [] ev.kind = "ScrollUp" /\ target = "footnote" ->
               [a EXCEPT !.footnote_scroll = scroll_up(a.footnote_scroll)]
         [] OTHER -> a

handle_mouse_events(ev, a) ==
    LET target == mouse_target(ev, a)
    IN CASE ev.kind = "ScrollDown" /\ target = "text" ->
               IF ~HasChapter(a) THEN Panic(a)
               ELSE IF scroll_down_overflows(a.text_scroll)
                       /\ overflow_checks
               THEN Panic(a)
               ELSE [a EXCEPT !.text_scroll =
                         scroll_down(chapter_text(a), a.text_rect,
                                     a.text_scroll)]
         [] ev.kind = "ScrollDown" /\ target = "footnote" ->
               IF ~HasChapter(a) THEN Panic(a)
               ELSE IF scroll_down_overflows(a.footnote_scroll)
                       /\ overflow_checks
               THEN Panic(a)
               ELSE [a EXCEPT !.footnote_scroll =
                         scroll_down(chapter_footnotes_text(a),
                                     a.footnote_rect, a.footnote_scroll)]
         [] ev.kind = "ScrollUp" /\ target = "text" ->
               [a EXCEPT !.text_scroll = scroll_up(a.text_scroll)]
         [] ev.kind = "ScrollUp" /\ target = "footnote" ->
               [a EXCEPT !.footnote_scroll = scroll_up(a.footnote_scroll)]
         [] OTHER -> a

---------------------------------------------------------------------------
(* ui.rs: the render cycle *)

\* Terminal sizes a frame may have (columns, rows).
FrameWidths == {50, 52}

FrameHeights == {7, 12}

\* chunks[6] of the horizontal layout: what is left of the frame after the
\* three list columns and their separators.
chapter_pane(width, height) ==
    Rect(CHAPTER_PANE_X, 0, width - CHAPTER_PANE_X, height)

\* Block::inner with Borders::ALL.
inner(r) ==
    Rect(r.x + 1, r.y + 1, Max(r.width - 2, 0), Max(r.height - 2, 0))

\* The vertical 80% / 20% split of the pane's inside.
text_chunk(r) == Rect(r.x, r.y, r.width, (r.height * TEXT_PERCENT) \div 100)

footnote_chunk(r) ==
    Rect(r.x, r.y + text_chunk(r).height, r.width,
         r.height - text_chunk(r).height)

\* The scroll offsets render_chapter_text / render_footnotes hand to the
\* drawing layer with Paragraph::scroll.
render_chapter_text_scroll(a) == a.text_scroll

render_footnotes_scroll(a) == a.footnote_scroll

\* The rows render_chapter_text draws for the model: the Paragraph is built
\* with Wrap, so every line takes its wrapped rows.
render_chapter_text_rows(a) == line_count(chapter_text(a), a.text_rect.width)

\* The rows render_footnotes draws for the model: the Paragraph is built
\* without Wrap, so every line takes one row, cut at the right edge.
render_footnotes_rows(a) == Len(chapter_footnotes_text(a))

\* render: books_titles, chapters_titles and chapter_title index the corpus
\* along the selection; then the two rectangles are recorded.
render(a, width, height) ==
    IF ~HasChapter(a)
    THEN Panic(a)
    ELSE LET inside == inner(chapter_pane(width, height))
         IN [a EXCEPT !.text_rect = text_chunk(inside),
                      !.footnote_rect = footnote_chunk(inside)]

---------------------------------------------------------------------------
(* The state machine *)

AppBecomes(a) ==
    /\ running' = a.running
    /\ column_selected' = a.column_selected
    /\ works_state' = a.works_state
    /\ books_state' = a.books_state
    /\ chapters_state' = a.chapters_state
    /\ text_rect' = a.text_rect
    /\ text_scroll' = a.text_scroll
    /\ footnote_rect' = a.footnote_rect
    /\ footnote_scroll' = a.footnote_scroll
    /\ panicked' = a.panicked

SetApp(a) ==
    /\ AppBecomes(a)
    /\ UNCHANGED <<data, overflow_checks, pc, source, html, result>>

IndexCapped(a) ==
    /\ a.works_state \in -MaxIndex..Max(MaxIndex, Len(data.works))
    /\ a.books_state \in -MaxIndex..MaxIndex
    /\ a.chapters_state \in -MaxIndex..MaxIndex

\* Pointer positions delivered with mouse events.
MouseColumns == {0} \cup (CHAPTER_PANE_X..(CHAPTER_PANE_X + 5))

MouseRows == {0, 1, 4, 5, 6, 7, 9, 10, 11, 12}

\* Placeholder of a variable the running application does not use.
Unused == "unused"

\* The state after App::new: the corpus is loaded, the event loop runs.
Init ==
    /\ pc = "run"
    /\ source = Unused
    /\ html = Unused
    /\ result = Unused
    /\ \E s \in Sources : data = Scriptures_new(s)
    /\ overflow_checks \in BOOLEAN
    /\ running = App_default.running
    /\ column_selected = App_default.column_selected
    /\ works_state = App_default.works_state
    /\ books_state = App_default.books_state
    /\ chapters_state = App_default.chapters_state
    /\ text_rect = App_default.text_rect
    /\ text_scroll = App_default.text_scroll
    /\ footnote_rect = App_default.footnote_rect
    /\ footnote_scroll = App_default.footnote_scroll
    /\ panicked = App_default.panicked

KeyStep ==
    /\ ~panicked
    /\ \E code \in KeyCodes, modifiers \in KeyModifiers :
          LET a == handle_key_events(KeyEvent(code, modifiers), app)
          IN IndexCapped(a) /\ SetApp(a)

MouseStep ==
    /\ ~panicked
    /\ \E kind \in MouseEventKinds, column \in MouseColumns,
          row \in MouseRows :
          SetApp(handle_mouse_events(MouseEvent(kind, column, row), app))

Tick ==
    /\ ~panicked
    /\ UNCHANGED vars

Render ==
    /\ ~panicked
    /\ \E width \in FrameWidths, height \in FrameHeights :
          SetApp(render(app, width, height))

Next == KeyStep \/ MouseStep \/ Tick \/ Render

Spec == Init /\ [][Next]_vars

---------------------------------------------------------------------------
(* The event loop over a corpus that holds a long chapter *)

\* A line so wide that it wraps into a multiple of 2^16 rows at each of
\* the widths the chapter pane takes (1 and 3 columns).
LongLine == 3 * (U16_MAX + 1)

\* The databases, the first of which holds a long chapter.
LongContents ==
    [Contents EXCEPT
        ![1] = << SqliteRow("Psa", Chapter("Psa 119", <<LongLine>>,
                                           <<LongLine>>)),
                  SqliteRow("Psa", Chapter("Psa 120", <<2, 0, 7>>, <<2>>)) >>]

InitLong ==
    /\ pc = "run"
    /\ source = Unused
    /\ html = Unused
    /\ result = Unused
    /\ data = [works |->
                 [k \in 1..Len(DATABASES) |->
                    Work(DATABASES[k],
                         load_books(LongContents[k], <<>>, "", <<>>))]]
    /\ overflow_checks \in BOOLEAN
    /\ running = App_default.running
    /\ column_selected = App_default.column_selected
    /\ works_state = App_default.works_state
    /\ books_state = App_default.books_state
    /\ chapters_state = App_default.chapters_state
    /\ text_rect = App_default.text_rect
    /\ text_scroll = App_default.text_scroll
    /\ footnote_rect = App_default.footnote_rect
    /\ footnote_scroll = App_default.footnote_scroll
    /\ panicked = App_default.panicked

SpecLong == InitLong /\ [][Next]_vars

---------------------------------------------------------------------------
(* Construction: App::default calls Scriptures::new on the backing source *)

Scriptures_default == [works |-> <<>>]

InitLoad ==
    /\ pc = "new"
    /\ source \in Sources
    /\ html = Unused
    /\ result = Unused
    /\ data = Scriptures_default
    /\ overflow_checks \in BOOLEAN
    /\ running = App_default.running
    /\ column_selected = App_default.column_selected
    /\ works_state = App_default.works_state
    /\ books_state = App_default.books_state
    /\ chapters_state = App_default.chapters_state
    /\ text_rect = App_default.text_rect
    /\ text_scroll = App_default.text_scroll
    /\ footnote_rect = App_default.footnote_rect
    /\ footnote_scroll = App_default.footnote_scroll
    /\ panicked = App_default.panicked

Construct ==
    /\ pc = "new"
    /\ data' = Scriptures_new(source)
    /\ pc' = "constructed"
    /\ UNCHANGED <<overflow_checks, running, column_selected, works_state,
                   books_state, chapters_state, text_rect, text_scroll,
                   footnote_rect, footnote_scroll, panicked, source, html,
                   result>>

\* render applied to the freshly constructed App, before any command.
FirstRender ==
    /\ pc = "constructed"
    /\ \E width \in FrameWidths, height \in FrameHeights :
          AppBecomes(render(app, width, height))
    /\ pc' = "drawn"
    /\ UNCHANGED <<data, overflow_checks, source, html, result>>

NextLoad == Construct \/ FirstRender

SpecLoad == InitLoad /\ [][NextLoad]_vars

---------------------------------------------------------------------------
(* Markup trees (roxmltree) and styled text (tui) *)

\* Option<T>
Some(v) == <<v>>
None == <<>>

\* roxmltree nodes.  attrs is the set of <<name, value>> pairs of an
\* element; a text node has no tag, no attributes and no children.
TextNode(t) ==
    [kind |-> "text", tag |-> "", attrs |-> {}, text |-> t,
     children |-> <<>>]

Element(tag, attrs, children) ==
    [kind |-> "element", tag |-> tag, attrs |-> attrs, text |-> "",
     children |-> children]

RootNode(children) ==
    [kind |-> "root", tag |-> "", attrs |-> {}, text |-> "",
     children |-> children]

\* A string of markup is the sequence of its top-level nodes.
\* Document::parse accepts exactly one top-level element and no top-level
\* text; format!("<p>{}</p>", s) makes the nodes of s the children of a p.
Document_parse(markup) ==
    IF Len(markup) = 1 /\ markup[1].kind = "element"
    THEN [ok |-> TRUE, root |-> RootNode(markup)]
    ELSE [ok |-> FALSE, root |-> RootNode(<<>>)]

wrap_in_p(markup) == <<Element("p", {}, markup)>>

attribute(n, name) ==
    IF \E p \in n.attrs : p[1] = name
    THEN Some((CHOOSE p \in n.attrs : p[1] = name)[2])
    ELSE None

is_text(n) == n.kind = "text"

tag_name(n) == n.tag

\* Node::text: a text node's text; for an element, the text of its first
\* child when that child is a text node.
node_text(n) ==
    IF is_text(n)
    THEN Some(n.text)
    ELSE IF n.kind = "element" /\ Len(n.children) > 0
              /\ is_text(n.children[1])
         THEN Some(n.children[1].text)
         ELSE None

\* Node::descendants: the node itself, then its subtree in document order.
RECURSIVE descendants(_)
RECURSIVE descendants_each(_)
descendants_each(nodes) ==
    IF nodes = <<>>
    THEN <<>>
    ELSE descendants(Head(nodes)) \o descendants_each(Tail(nodes))

descendants(n) == <<n>> \o descendants_each(n.children)

\* Iterator::find over a sequence of nodes: the first node whose
\* attribute `name` is `value`, and the first node of a given tag.
find_attribute(nodes, name, value) ==
    LET found == { i \in 1..Len(nodes) :
                     attribute(nodes[i], name) = Some(value) }
    IN IF found # {}
       THEN Some(nodes[CHOOSE i \in found : \A j \in found : i <= j])
       ELSE None

find_tag(nodes, name) ==
    LET found == { i \in 1..Len(nodes) : tag_name(nodes[i]) = name }
    IN IF found # {}
       THEN Some(nodes[CHOOSE i \in found : \A j \in found : i <= j])
       ELSE None

\* Iterator::filter: the nodes of a given class, in order.
filter_class(nodes, class) ==
    LET Test(n) == attribute(n, "class") = Some(class)
    IN SelectSeq(nodes, Test)

RECURSIVE recursive_text_as_string(_)
RECURSIVE recursive_text_each(_)
recursive_text_each(nodes) ==
    IF nodes = <<>>
    THEN ""
    ELSE recursive_text_as_string(Head(nodes))
             \o recursive_text_each(Tail(nodes))

recursive_text_as_string(node) ==
    (IF is_text(node) THEN node.text ELSE "")
        \o recursive_text_each(node.children)

\* The 26 ASCII lowercase letters.
Letters ==
    {"a", "b", "c", "d", "e", "f", "g", "h", "i", "j", "k", "l", "m",
     "n", "o", "p", "q", "r", "s", "t", "u", "v", "w", "x", "y", "z"}

\* Mutant: 'q' is given a superscript like every other letter.
footnote_unicode_uniform(string) ==
    IF string = None
    THEN None
    ELSE IF string[1] \in Letters
         THEN Some("^" \o string[1])
         ELSE None

\* footnote_unicode.  The superscript glyph of a letter x is written "^x".
footnote_unicode(string) ==
    IF string = None
    THEN None
    ELSE LET input == string[1]
         IN CASE input = "a" -> Some("^a")
              [] input = "b" -> Some("^b")
              [] input = "c" -> Some("^c")
              [] input = "d" -> Some("^d")
              [] input = "e" -> Some("^e")
              [] input = "f" -> Some("^f")
              [] input = "g" -> Some("^g")
              [] input = "h" -> Some("^h")
              [] input = "i" -> Some("^i")
              [] input = "j" -> Some("^j")
              [] input = "k" -> Some("^k")
              [] input = "l" -> Some("^l")
              [] input = "m" -> Some("^m")
              [] input = "n" -> Some("^n")
              [] input = "o" -> Some("^o")
              [] input = "p" -> Some("^p")
              [] input = "q" -> Some("q")
              [] input = "r" -> Some("^r")
              [] input = "s" -> Some("^s")
              [] input = "t" -> Some("^t")
              [] input = "u" -> Some("^u")
              [] input = "v" -> Some("^v")
              [] input = "w" -> Some("^w")
              [] input = "x" -> Some("^x")
              [] input = "y" -> Some("^y")
              [] input = "z" -> Some("^z")
              [] OTHER -> None

\* tui spans and lines.  A style is the set of its modifiers.
BOLD == "BOLD"
ITALIC == "ITALIC"
Span_styled(content, style) == [content |-> content, style |-> style]
Span_raw(content) == Span_styled(content, {})
Line(spans, alignment) == [spans |-> spans, alignment |-> alignment]
Line_from(spans) == Line(spans, None)
\* "".into(), and the one line of Text::raw("")
Blank == Line_from(<<Span_raw("")>>)

---------------------------------------------------------------------------
(* Chapter::text, verse_text, Chapter::refs_in_order, *)
(* Chapter::footnotes_text                            *)

\* A Chapter as the loader stores it: the markup of the chapter and the
\* footnote table, a function from the ids present to Footnote records.
Footnote(id, label_html, content_html) ==
    [id |-> id, label_html |-> label_html, content_html |-> content_html]

ChapterMarkup(html_content, footnotes) ==
    [html_content |-> html_content, footnotes |-> footnotes]

HasClass(n, class) == attribute(n, "class") = Some(class)
HasId(n, id) == attribute(n, "id") = Some(id)

\* An operation either panics or returns a value.
Abort == [panicked |-> TRUE, value |-> <<>>]
Return(v) == [panicked |-> FALSE, value |-> v]

\* The children of a study-note-ref: a sup child gives the italic glyph of
\* its marker, a text child a span of the given style.
RECURSIVE study_note_ref_spans(_, _)
study_note_ref_spans(children, text_style) ==
    IF children = <<>>
    THEN <<>>
    ELSE LET child2 == Head(children)
             here ==
                 IF tag_name(child2) = "sup"
                 THEN LET footnote == footnote_unicode(node_text(child2))
                      IN IF footnote # None
                         THEN <<Span_styled(footnote[1], {ITALIC})>>
                         ELSE <<>>
                 ELSE IF is_text(child2)
                      THEN <<Span_styled(node_text(child2)[1], text_style)>>
                      ELSE <<>>
         IN here \o study_note_ref_spans(Tail(children), text_style)

\* The children of a clarity-word without direct text.
RECURSIVE clarity_word_spans(_)
clarity_word_spans(children) ==
    IF children = <<>>
    THEN <<>>
    ELSE LET child == Head(children)
             here ==
                 IF HasClass(child, "study-note-ref")
                 THEN study_note_ref_spans(child.children, {ITALIC})
                 ELSE IF is_text(child)
                      THEN <<Span_styled(node_text(child)[1], {ITALIC})>>
                      ELSE <<>>
         IN here \o clarity_word_spans(Tail(children))

\* One child of a verse: the spans it pushes, or the panic of unwrap().
verse_child(child) ==
    IF HasClass(child, "verse-number")
    THEN IF node_text(child) = None
         THEN Abort
         ELSE Return(<<Span_styled(node_text(child)[1], {BOLD})>>)
    ELSE IF HasClass(child, "para-mark") \/ is_text(child)
    THEN IF node_text(child) = None
         THEN Abort
         ELSE Return(<<Span_raw(node_text(child)[1])>>)
    ELSE IF HasClass(child, "clarity-word")
    THEN IF node_text(child) # None
         THEN Return(<<Span_styled(node_text(child)[1], {ITALIC})>>)
         ELSE Return(clarity_word_spans(child.children))
    ELSE IF HasClass(child, "study-note-ref")
    THEN Return(study_note_ref_spans(child.children, {}))
    ELSE Return(<<>>)

RECURSIVE verse_children(_, _)
verse_children(children, spans) ==
    IF children = <<>>
    THEN Return(spans)
    ELSE LET r == verse_child(Head(children))
         IN IF r.panicked
            THEN Abort
            ELSE verse_children(Tail(children), spans \o r.value)

\* verse_text: the Line of a verse node.
verse_text(node) ==
    LET r == verse_children(node.children, <<>>)
    IN IF r.panicked THEN Abort ELSE Return(Line_from(r.value))

\* The lines Chapter::text emits for the header.
header_lines(header) ==
    LET title_node == find_attribute(header.children, "id", "title1")
        subtitle_node == find_attribute(header.children, "id", "subtitle1")
        intro_node == find_attribute(header.children, "id", "intro1")
        study_summary_node ==
            find_attribute(header.children, "class", "study-summary")
        Centered(t) == Line(<<Span_styled(t, {BOLD})>>, Some("Center"))
    IN (IF title_node # None
        THEN <<Centered(recursive_text_as_string(title_node[1]))>>
        ELSE <<>>)
       \o (IF subtitle_node # None
           THEN <<Centered(recursive_text_as_string(subtitle_node[1]))>>
           ELSE <<>>)
       \o (IF intro_node # None
           THEN <<Blank,
                  Line_from(<<Span_raw(
                      recursive_text_as_string(intro_node[1]))>>)>>
           ELSE <<>>)
       \o (IF study_summary_node # None
           THEN <<Blank,
                  Line_from(<<Span_styled(
                      recursive_text_as_string(study_summary_node[1]),
                      {ITALIC})>>),
                  Blank>>
           ELSE <<>>)

RECURSIVE verse_lines(_, _)
verse_lines(verses, lines) ==
    IF verses = <<>>
    THEN Return(lines)
    ELSE LET r == verse_text(Head(verses))
         IN IF r.panicked
            THEN Abort
            ELSE verse_lines(Tail(verses), lines \o <<r.value, Blank>>)

\* Chapter::text
Chapter_text(chapter) ==
    LET tree == Document_parse(chapter.html_content)
    IN IF ~tree.ok
       THEN Abort
       ELSE LET body == find_tag(descendants(tree.root), "body")
            IN IF body = None
               THEN Return(<<>>)
               ELSE LET header == find_tag(descendants(body[1]), "header")
                        verses == filter_class(descendants(body[1]), "verse")
                    IN verse_lines(verses,
                                   IF header # None
                                   THEN header_lines(header[1])
                                   ELSE <<>>)

\* filter_map(|n| n.attribute("data-ref"))
RECURSIVE data_refs(_)
data_refs(nodes) ==
    IF nodes = <<>>
    THEN <<>>
    ELSE LET r == attribute(Head(nodes), "data-ref")
         IN (IF r # None THEN <<r[1]>> ELSE <<>>) \o data_refs(Tail(nodes))

\* Mutant: a reference without data-ref falls back to its sup marker.
RECURSIVE data_refs_or_sup(_)
data_refs_or_sup(nodes) ==
    IF nodes = <<>>
    THEN <<>>
    ELSE LET n == Head(nodes)
             r == attribute(n, "data-ref")
             sup == find_tag(n.children, "sup")
         IN (IF r # None
             THEN <<r[1]>>
             ELSE IF sup # None /\ node_text(sup[1]) # None
                  THEN <<node_text(sup[1])[1]>>
                  ELSE <<>>)
            \o data_refs_or_sup(Tail(nodes))

refs_in_order_or_sup(chapter) ==
    LET tree == Document_parse(chapter.html_content)
    IN IF ~tree.ok
       THEN Abort
       ELSE Return(data_refs_or_sup(
                filter_class(descendants(tree.root), "study-note-ref")))

\* Mutant: each id is kept once, at its first reference.
RECURSIVE dedup(_, _)
dedup(ids, seen) ==
    IF ids = <<>>
    THEN <<>>
    ELSE IF Head(ids) \in seen
         THEN dedup(Tail(ids), seen)
         ELSE <<Head(ids)>> \o dedup(Tail(ids), seen \cup {Head(ids)})

refs_in_order_dedup(chapter) ==
    LET tree == Document_parse(chapter.html_content)
    IN IF ~tree.ok
       THEN Abort
       ELSE Return(dedup(data_refs(
                filter_class(descendants(tree.root), "study-note-ref")), {}))

\* Chapter::refs_in_order
refs_in_order(chapter) ==
    LET tree == Document_parse(chapter.html_content)
    IN IF ~tree.ok
       THEN Abort
       ELSE Return(data_refs(
                filter_class(descendants(tree.root), "study-note-ref")))

\* The line of one footnote, or the panic of a parse unwrap().
footnote_line(footnote) ==
    LET title_tree == Document_parse(wrap_in_p(footnote.label_html))
        content_tree == Document_parse(footnote.content_html)
    IN IF ~title_tree.ok \/ ~content_tree.ok
       THEN Abort
       ELSE Return(Line_from(
                <<Span_styled(recursive_text_as_string(title_tree.root),
                              {BOLD}),
                  Span_raw(recursive_text_as_string(content_tree.root))>>))

\* Mutant: a missing id aborts the linker.
RECURSIVE footnote_lines_strict(_, _, _)
footnote_lines_strict(chapter, ids, lines) ==
    IF ids = <<>>
    THEN Return(lines)
    ELSE IF Head(ids) \in DOMAIN chapter.footnotes
         THEN LET r == footnote_line(chapter.footnotes[Head(ids)])
              IN IF r.panicked
                 THEN Abort
                 ELSE footnote_lines_strict(chapter, Tail(ids),
                                            Append(lines, r.value))
         ELSE Abort

\* The loop of footnotes_text over the ids.
RECURSIVE footnote_lines(_, _, _)
footnote_lines(chapter, ids, lines) ==
    IF ids = <<>>
    THEN Return(lines)
    ELSE IF Head(ids) \in DOMAIN chapter.footnotes
         THEN LET r == footnote_line(chapter.footnotes[Head(ids)])
              IN IF r.panicked
                 THEN Abort
                 ELSE footnote_lines(chapter, Tail(ids),
                                     Append(lines, r.value))
         ELSE footnote_lines(chapter, Tail(ids), lines)

\* Chapter::footnotes_text
footnotes_text(chapter) ==
    LET refs == refs_in_order(chapter)
    IN IF refs.panicked
       THEN Abort
       ELSE footnote_lines(chapter, refs.value, <<>>)

---------------------------------------------------------------------------
(* Rendering and linking one chapter, mapping one marker *)

Class(c) == {<<"class", c>>}

\* A study-note-ref as the corpus writes it: a sup marker and the word.
StudyNoteRef(attrs, marker, word) ==
    Element("a", attrs, <<Element("sup", {}, <<TextNode(marker)>>),
                          TextNode(word)>>)

\* The children a verse is made of.
VerseChildKinds ==
    { Element("span", Class("verse-number"), <<TextNode("1")>>),
      Element("span", Class("verse-number"), <<>>),
      Element("span", Class("para-mark"), <<TextNode("P")>>),
      Element("span", Class("para-mark"),
              <<Element("b", {}, <<TextNode("P")>>)>>),
      TextNode("In the beginning "),
      StudyNoteRef(Class("study-note-ref") \cup {<<"data-ref", "a">>},
                   "a", "God"),
      StudyNoteRef(Class("study-note-ref") \cup {<<"data-ref", "b">>},
                   "b", "heaven"),
      StudyNoteRef(Class("study-note-ref") \cup {<<"data-ref", "c">>},
                   "aa", "earth"),
      StudyNoteRef(Class("study-note-ref"), "a", "void"),
      Element("span", Class("clarity-word"), <<TextNode("was")>>),
      Element("span", Class("clarity-word"),
              <<StudyNoteRef(Class("study-note-ref")
                                 \cup {<<"data-ref", "a">>}, "q", "it"),
                TextNode(" is")>>),
      Element("br", {}, <<>>) }

MaxVerseChildren == 2

Verse(children) == Element("p", Class("verse"), children)

Verses ==
    { Verse(children) :
        children \in UNION { [1..n -> VerseChildKinds] :
                               n \in 1..MaxVerseChildren } }

Header(children) == Element("header", {}, children)

Headers ==
    { <<>>,
      <<Header(<<Element("h1", {<<"id", "title1">>}, <<TextNode("Genesis")>>),
                 Element("p", {<<"id", "subtitle1">>},
                         <<TextNode("Chapter 1")>>),
                 Element("p", {<<"id", "intro1">>},
                         <<TextNode("An account.")>>),
                 Element("p", Class("study-summary"),
                         <<TextNode("God creates.")>>)>>)>>,
      <<Header(<<Element("p", {<<"id", "intro1">>}, <<>>),
                 Element("h1", {<<"id", "title1">>},
                         <<Element("span", {}, <<TextNode("Exodus")>>)
                         >>)>>)>> }

Html(children) == <<Element("html", {}, children)>>

\* Footnote tables: none, a only, a and b, and a with bare-text content.
FootnoteA ==
    Footnote("a", <<Element("p", {}, <<TextNode("1a")>>)>>,
             <<Element("p", {}, <<TextNode("TG God.")>>)>>)
FootnoteB ==
    Footnote("b", <<TextNode("1b")>>,
             <<Element("p", {}, <<TextNode("Heb. sky.")>>)>>)
FootnoteBare ==
    Footnote("a", <<Element("p", {}, <<TextNode("1a")>>)>>,
             <<TextNode("Commentary.")>>)

FootnoteTables ==
    { <<>>,
      "a" :> FootnoteA,
      ("a" :> FootnoteA) @@ ("b" :> FootnoteB),
      "a" :> FootnoteBare }

\* <body><verse class="verse">1 In the beginning
\* <note class="study-note-ref"><sup>a</sup></note></verse></body>
ExampleMarkup ==
    <<Element("body", {},
        <<Element("verse", Class("verse"),
            <<TextNode("1 In the beginning "),
              Element("note", Class("study-note-ref"),
                      <<Element("sup", {}, <<TextNode("a")>>)>>)>>)>>)>>

ExampleChapter == ChapterMarkup(ExampleMarkup, "a" :> FootnoteBare)

\* Verses of the two-verse chapters.
PairVerses ==
    { v \in Verses :
        /\ Len(v.children) = 1
        /\ \/ HasClass(v.children[1], "study-note-ref")
           \/ is_text(v.children[1]) }

Markups ==
    { Html(<<Element("body", {}, h \o <<v>>)>>) :
        h \in Headers, v \in Verses }
    \cup { Html(<<Element("body", {},
                    <<v, Element("div", {}, <<w>>)>>)>>) :
             v \in PairVerses, w \in PairVerses }
    \cup { Html(<<Element("div", {}, <<v>>)>>) : v \in PairVerses }
    \cup { Html(<<Element("body", {}, <<>>)>>), <<>>,
           <<TextNode("In the beginning")>> }

Chapters ==
    { ChapterMarkup(m, t) : m \in Markups, t \in FootnoteTables }
    \cup { ExampleChapter }

\* Marker texts handed to footnote_unicode.
MarkerInputs ==
    { None } \cup { Some(s) : s \in Letters \cup {"", "aa", "A", "Q", "0"} }

InitRender ==
    /\ \/ pc = "chapter" /\ html \in Chapters
       \/ pc = "marker" /\ html \in MarkerInputs
    /\ result = Unused
    /\ source = Unused
    /\ data = Scriptures_default
    /\ overflow_checks = FALSE
    /\ running = App_default.running
    /\ column_selected = App_default.column_selected
    /\ works_state = App_default.works_state
    /\ books_state = App_default.books_state
    /\ chapters_state = App_default.chapters_state
    /\ text_rect = App_default.text_rect
    /\ text_scroll = App_default.text_scroll
    /\ footnote_rect = App_default.footnote_rect
    /\ footnote_scroll = App_default.footnote_scroll
    /\ panicked = App_default.panicked

Returns(r, next) ==
    /\ result' = r
    /\ pc' = next
    /\ UNCHANGED <<data, overflow_checks, source, html, running,
                   column_selected, works_state, books_state,
                   chapters_state, text_rect, text_scroll, footnote_rect,
                   footnote_scroll, panicked>>

RenderText ==
    /\ pc = "chapter"
    /\ Returns(Chapter_text(html), "text")

LinkFootnotes ==
    /\ pc = "chapter"
    /\ Returns(footnotes_text(html), "footnotes")

MapMarker ==
    /\ pc = "marker"
    /\ Returns(footnote_unicode(html), "mapped")

NextRender == RenderText \/ LinkFootnotes \/ MapMarker

SpecRender == InitRender /\ [][NextRender]_vars

---------------------------------------------------------------------------
(* Vocabulary of the properties *)

\* The corpus the loader is meant to deliver: at least one Work, every Work
\* with at least one Book, every Book with at least one Chapter.
WellFormed ==
    /\ Len(data.works) >= 1
    /\ \A w \in 1..Len(data.works) :
          /\ Len(data.works[w].books) >= 1
          /\ \A b \in 1..Len(data.works[w].books) :
                Len(data.works[w].books[b].chapters) >= 1

\* The index, and the containing collection's length, of the active column.
ActiveIndex(a) ==
    CASE a.column_selected = 0 -> a.works_state
      [] a.column_selected = 1 -> a.books_state
      [] OTHER -> a.chapters_state

ActiveValid(a) ==
    CASE a.column_selected = 0 -> HasWork(a)
      [] a.column_selected = 1 -> HasBook(a)
      [] OTHER -> HasChapter(a)

ActiveLen(a) ==
    CASE a.column_selected = 0 -> Len(data.works)
      [] a.column_selected = 1 -> Len(current_work(a).books)
      [] OTHER -> Len(current_book(a).chapters)

Down == KeyEvent("Down", "NONE")

Up == KeyEvent("Up", "NONE")

Left == KeyEvent("Left", "NONE")

Right == KeyEvent("Right", "NONE")

RECURSIVE Repeat(_, _, _)
Repeat(key_event, n, a) ==
    IF n = 0 THEN a
    ELSE Repeat(key_event, n - 1, handle_key_events(key_event, a))

\* A point lies inside a rectangle: columns x .. x+width-1, rows
\* y .. y+height-1.
Contains(r, column, row) ==
    /\ column >= r.x /\ column < r.x + r.width
    /\ row >= r.y /\ row < r.y + r.height

\* max(0, totalRows - viewportHeight) for a text model in a viewport.
MaxOffset(text, rect) == Max(0, line_count(text, rect.width) - rect.height)

ScrollEvents(kind) ==
    { MouseEvent(kind, column, row) :
          column \in MouseColumns, row \in MouseRows }

---------------------------------------------------------------------------
(* C1 *)

\* C1: over a corpus with at least one Work, every Work with a Book and
\* every Book with a Chapter, the selection always indexes an existing
\* Work, Book and Chapter, and the process has not aborted on a lookup.
C1_SelectionInRange ==
    WellFormed =>
        /\ ~panicked
        /\ 0 <= works_state /\ works_state < Len(data.works)
        /\ 0 <= books_state
        /\ books_state < Len(data.works[works_state + 1].books)
        /\ 0 <= chapters_state
        /\ chapters_state
             < Len(data.works[works_state + 1].books[books_state + 1].chapters)

\* Witness: navigation has reached the last book of the last work, which
\* has more books than the works before it.
C1_Witness ==
    /\ WellFormed
    /\ works_state = Len(data.works) - 1
    /\ books_state = 2
    /\ Len(data.works[1].books) = 2
    /\ text_rect # Rect_default

---------------------------------------------------------------------------
(* C2 *)

\* C2: an Up or Down key with the work column active leaves book index,
\* chapter index and both scroll offsets at 0; with the book column active
\* it leaves chapter index and both offsets at 0; with the chapter column
\* active it leaves both offsets at 0.
C2_CascadingReset ==
    \A key_event \in {Up, Down} :
        LET a == handle_key_events(key_event, app)
        IN (~panicked /\ ~a.panicked) =>
              /\ a.text_scroll = 0 /\ a.footnote_scroll = 0
              /\ column_selected \in {0, 1} => a.chapters_state = 0
              /\ column_selected = 0 => a.books_state = 0

\* Witness: the work column is active while a later book, a later chapter
\* and both scroll offsets are away from 0.
C2_Witness ==
    /\ column_selected = 0
    /\ books_state = 1 /\ chapters_state = 1
    /\ text_scroll > 0 /\ footnote_scroll > 0
    /\ ~panicked

---------------------------------------------------------------------------
(* C3 *)

\* C3: with the active column's index valid in a collection of N >= 1
\* items, N Down keys bring that index back to where it was, and so do N
\* Up keys.
C3_WraparoundClosure ==
    (~panicked /\ ActiveValid(app)) =>
        \A key_event \in {Up, Down} :
            LET a == Repeat(key_event, ActiveLen(app), app)
            IN /\ ~a.panicked
               /\ ActiveIndex(a) = ActiveIndex(app)

\* Witness: the book column is active in the middle of a work of three
\* books.
C3_Witness ==
    /\ ~panicked
    /\ column_selected = 1
    /\ HasBook(app)
    /\ Len(current_work(app).books) = 3
    /\ books_state = 1

---------------------------------------------------------------------------
(* C4 *)

\* C4: one Down key moves the active column's index i to (i + 1) mod L and
\* one Up key to (i - 1 + L) mod L, L being the length of the collection
\* the current selection path leads to.
C4_SingleStep ==
    (~panicked /\ ActiveValid(app)) =>
        LET L == ActiveLen(app)
            i == ActiveIndex(app)
            d == handle_key_events(Down, app)
            u == handle_key_events(Up, app)
        IN /\ ~d.panicked /\ ActiveIndex(d) = (i + 1) % L
           /\ ~u.panicked /\ ActiveIndex(u) = (i - 1 + L) % L

\* Witness: the book column is active on the last of three books while the
\* first work has two, so the wrap must use the selected work's length.
C4_Witness ==
    /\ ~panicked
    /\ column_selected = 1
    /\ HasBook(app)
    /\ works_state > 0
    /\ Len(current_work(app).books) = 3
    /\ Len(data.works[1].books) = 2
    /\ books_state = 2

---------------------------------------------------------------------------
(* C5 *)

\* C5: Left then Right, and Right then Left, give back the whole App state.
C5_LeftRightIdentity ==
    ~panicked =>
        /\ handle_key_events(Right, handle_key_events(Left, app)) = app
        /\ handle_key_events(Left, handle_key_events(Right, app)) = app

\* Witness: the third column is active (Right wraps to the first) in a
\* state with a later chapter selected and a scrolled body text.
C5_Witness ==
    /\ ~panicked
    /\ column_selected = 2
    /\ chapters_state = 1
    /\ text_scroll > 0

---------------------------------------------------------------------------
(* C6 *)

\* C6: Right changes column c to (c + 1) mod 3 and Left to (c + 2) mod 3,
\* and neither changes any other field: selection indices, scroll offsets
\* and viewport rectangles stay as they were.
C6_ColumnOnly ==
    ~panicked =>
        /\ handle_key_events(Right, app)
             = [app EXCEPT !.column_selected = (column_selected + 1) % 3]
        /\ handle_key_events(Left, app)
             = [app EXCEPT !.column_selected = (column_selected + 2) % 3]

\* Witness: the second column is active with selection, footnote offset and
\* rectangles all away from their initial values.
C6_Witness ==
    /\ ~panicked
    /\ column_selected = 1
    /\ books_state = 1 /\ chapters_state = 1
    /\ footnote_scroll > 0
    /\ footnote_rect # Rect_default

---------------------------------------------------------------------------
(* C7 *)

\* C7: a ScrollDown handled for a viewport leaves that viewport's offset at
\* min(previous offset + 1, max(0, totalRows - viewportHeight)), totalRows
\* being the wrapped row count of the current chapter's model at the
\* viewport's width; the offset is then neither negative nor above that
\* maximum.
C7_ScrollDownClamped ==
    ~panicked =>
        \A ev \in ScrollEvents("ScrollDown") :
            LET a == handle_mouse_events(ev, app)
                target == mouse_target(ev, app)
            IN ~a.panicked =>
                  /\ target = "text" =>
                        LET m == MaxOffset(chapter_text(app), text_rect)
                        IN /\ a.text_scroll = Min(text_scroll + 1, m)
                           /\ 0 <= a.text_scroll /\ a.text_scroll <= m
                  /\ target = "footnote" =>
                        LET m == MaxOffset(chapter_footnotes_text(app),
                                           footnote_rect)
                        IN /\ a.footnote_scroll = Min(footnote_scroll + 1, m)
                           /\ 0 <= a.footnote_scroll
                           /\ a.footnote_scroll <= m

\* Witness: the body text has been scrolled down to the maximum offset of a
\* four-row viewport one column wide, where the next ScrollDown is clamped.
C7_Witness ==
    /\ ~panicked
    /\ HasChapter(app)
    /\ text_rect.height = 4 /\ text_rect.width = 1
    /\ text_scroll = MaxOffset(chapter_text(app), text_rect)
    /\ text_scroll > 1

---------------------------------------------------------------------------
(* C8 *)

\* C8: the body-text offset and the footnote offset a render cycle hands to
\* the drawing layer are each at most max(0, totalRows - viewportHeight)
\* for the last-known rectangle of their viewport.
C8_RenderedScrollWithinBounds ==
    (~panicked /\ HasChapter(app)) =>
        /\ render_chapter_text_scroll(app)
             <= MaxOffset(chapter_text(app), text_rect)
        /\ render_footnotes_scroll(app)
             <= MaxOffset(chapter_footnotes_text(app), footnote_rect)

---------------------------------------------------------------------------
(* C9 *)

\* C9: a ScrollUp handled for a viewport lowers that viewport's offset by
\* exactly 1 when it is above 0 and leaves it at 0 when it is 0; the result
\* is never a wrapped-around 16-bit value.
C9_ScrollUpNoUnderflow ==
    ~panicked =>
        \A ev \in ScrollEvents("ScrollUp") :
            LET a == handle_mouse_events(ev, app)
                target == mouse_target(ev, app)
            IN /\ ~a.panicked
               /\ target = "text" =>
                     /\ text_scroll > 0 => a.text_scroll = text_scroll - 1
                     /\ text_scroll = 0 => a.text_scroll = 0
               /\ target = "footnote" =>
                     /\ footnote_scroll > 0
                           => a.footnote_scroll = footnote_scroll - 1
                     /\ footnote_scroll = 0 => a.footnote_scroll = 0

\* Witness: after a render, the footnote offset is above 0 while the body
\* text offset is 0, so a ScrollUp meets both cases.
C9_Witness ==
    /\ ~panicked
    /\ text_rect # Rect_default
    /\ text_scroll = 0
    /\ footnote_scroll = 1
    /\ \E ev \in ScrollEvents("ScrollUp") : mouse_target(ev, app) = "text"
    /\ \E ev \in ScrollEvents("ScrollUp") :
          mouse_target(ev, app) = "footnote"

---------------------------------------------------------------------------
(* C10 *)

\* The offset a scroll event of a kind leaves in the viewport it is routed
\* to, given the viewport's maximum offset m.
Routed(kind, scroll, m) ==
    IF kind = "ScrollDown" THEN Min(scroll + 1, m) ELSE Max(scroll - 1, 0)

\* C10: a scroll event changes the body-text offset only at a point inside
\* the body-text rectangle, changes the footnote offset only at a point
\* inside the footnote rectangle, and changes nothing at a point outside
\* both; a point inside a rectangle (the first row of the footnote
\* rectangle included) is routed to that rectangle's viewport and leaves
\* the other offset alone.
C10_PointerRouting ==
    (~panicked /\ WellFormed) =>
        \A ev \in ScrollEvents("ScrollDown") \cup ScrollEvents("ScrollUp") :
            LET a == handle_mouse_events(ev, app)
                inText == Contains(text_rect, ev.column, ev.row)
                inFootnote == Contains(footnote_rect, ev.column, ev.row)
            IN /\ a.text_scroll # text_scroll => inText
               /\ a.footnote_scroll # footnote_scroll => inFootnote
               /\ (~inText /\ ~inFootnote) => a = app
               /\ inText =>
                     a.text_scroll =
                         Routed(ev.kind, text_scroll,
                                MaxOffset(chapter_text(app), text_rect))
               /\ inFootnote =>
                     /\ a.text_scroll = text_scroll
                     /\ a.footnote_scroll =
                            Routed(ev.kind, footnote_scroll,
                                   MaxOffset(chapter_footnotes_text(app),
                                             footnote_rect))

---------------------------------------------------------------------------
(* C16 *)

\* C16: every corpus the loader returns successfully has at least one Book
\* in every Work and at least one Chapter in every Book, whatever rows the
\* sources return, a source of zero rows included.
C16_LoadedCorpusWellFormed ==
    (pc = "constructed" /\ new_failable(source).ok) =>
        \A w \in 1..Len(data.works) :
            /\ Len(data.works[w].books) >= 1
            /\ \A b \in 1..Len(data.works[w].books) :
                  Len(data.works[w].books[b].chapters) >= 1

---------------------------------------------------------------------------
(* C17 *)

\* C17: when opening or querying any one backing source fails, the
\* application is constructed, without aborting, with a corpus of zero
\* Works: nothing loaded before the failing source is kept.
C17_FailureGivesEmptyCorpus ==
    (pc = "constructed"
       /\ \E k \in 1..Len(DATABASES) : source[k] = Unreadable) =>
        /\ data.works = <<>>
        /\ ~panicked

\* Witness: construction has finished on a source whose first two
\* databases hold rows and whose third is unreadable.
C17_Witness ==
    /\ pc = "constructed"
    /\ source[1] = "rows" /\ source[2] = "rows"
    /\ source[3] = Unreadable
    /\ data.works = <<>>

---------------------------------------------------------------------------
(* C18 *)

\* C18: after a load failure has left the corpus empty, the render cycle
\* issued before any navigation command completes without a fatal error.
C18_FirstRenderSurvivesEmptyCorpus ==
    (pc = "drawn" /\ data.works = <<>>) => ~panicked

---------------------------------------------------------------------------
(* C11 *)

\* C11: the marker mapper returns a glyph exactly for the 26 single
\* lowercase letters: the superscript of the letter, except "q" which maps
\* to the literal "q"; every other input (absent, empty, several
\* characters, uppercase, digit) has no mapping.
C11_MarkerMapping ==
    pc = "mapped" =>
        result = IF html \in {Some(l) : l \in Letters}
                 THEN IF html = Some("q")
                      THEN Some("q")
                      ELSE Some("^" \o html[1])
                 ELSE None

\* Witness: "q" has been mapped to the literal "q".
C11_Witness ==
    pc = "mapped" /\ html = Some("q") /\ result = Some("q")

---------------------------------------------------------------------------
(* Document order, stated on paths *)

\* A path is the sequence of child positions leading from a node down to
\* one of the nodes of its subtree.
RECURSIVE Paths(_)
Paths(n) ==
    {<<>>} \cup UNION { { <<i>> \o p : p \in Paths(n.children[i]) } :
                          i \in 1..Len(n.children) }

RECURSIVE NodeAt(_, _)
NodeAt(n, p) ==
    IF p = <<>> THEN n ELSE NodeAt(n.children[Head(p)], Tail(p))

IsPrefix(p, q) ==
    Len(p) <= Len(q) /\ \A k \in 1..Len(p) : p[k] = q[k]

\* p comes before q in document order: an ancestor before its subtree,
\* an earlier sibling's subtree before a later sibling's.
DocBefore(p, q) ==
    /\ p # q
    /\ \/ IsPrefix(p, q)
       \/ \E k \in 1..Min(Len(p), Len(q)) :
             /\ p[k] < q[k]
             /\ \A j \in 1..(k - 1) : p[j] = q[j]

\* The position of p among the paths of S, in document order.
Rank(p, S) == Cardinality({q \in S : DocBefore(q, p)}) + 1

TreeOf(chapter) == Document_parse(chapter.html_content).root

Parses(chapter) == Document_parse(chapter.html_content).ok

\* The references the linker scans, and those whose id the table holds.
RefPaths(chapter) ==
    { p \in Paths(TreeOf(chapter)) :
        /\ HasClass(NodeAt(TreeOf(chapter), p), "study-note-ref")
        /\ attribute(NodeAt(TreeOf(chapter), p), "data-ref") # None }

IdAt(chapter, p) == attribute(NodeAt(TreeOf(chapter), p), "data-ref")[1]

Hits(chapter) ==
    { p \in RefPaths(chapter) :
        IdAt(chapter, p) \in DOMAIN chapter.footnotes }

Misses(chapter) == RefPaths(chapter) \ Hits(chapter)

\* The line of a footnote: its label in bold, then its content.
LineOf(footnote) ==
    Line_from(
        <<Span_styled(
              recursive_text_as_string(RootNode(footnote.label_html)),
              {BOLD}),
          Span_raw(
              recursive_text_as_string(RootNode(footnote.content_html)))>>)

\* The chapter's markup parses, and so does the content of every footnote
\* that a reference reaches.
Linkable(chapter) ==
    /\ Parses(chapter)
    /\ \A p \in Hits(chapter) :
          Document_parse(
              chapter.footnotes[IdAt(chapter, p)].content_html).ok

---------------------------------------------------------------------------
(* C12 *)

\* C12: the linker emits one line per study-note-ref whose data-ref is in
\* the footnote table, in the document order of the references and without
\* deduplication: the k-th such reference gives the k-th line.
C12_DocumentOrderNoDedup ==
    (pc = "footnotes" /\ Linkable(html)) =>
        /\ ~result.panicked
        /\ Len(result.value) = Cardinality(Hits(html))
        /\ \A p \in Hits(html) :
              result.value[Rank(p, Hits(html))]
                  = LineOf(html.footnotes[IdAt(html, p)])

\* Witness: two references to the same id have given the same line twice.
C12_Witness ==
    /\ pc = "footnotes"
    /\ Linkable(html)
    /\ \E p \in Hits(html), q \in Hits(html) :
          p # q /\ IdAt(html, p) = IdAt(html, q)
    /\ Len(result.value) = 2
    /\ result.value[1] = result.value[2]

---------------------------------------------------------------------------
(* C13 *)

Count(lines, line) == Cardinality({i \in 1..Len(lines) : lines[i] = line})

\* C13: a reference whose id misses the table gives no line and no error:
\* the linker emits as many lines as references scanned minus misses, and
\* each footnote of the table appears once per reference to it.
C13_MissSkipped ==
    (pc = "footnotes" /\ Linkable(html)) =>
        /\ ~result.panicked
        /\ Len(result.value)
               = Cardinality(RefPaths(html)) - Cardinality(Misses(html))
        /\ \A id \in DOMAIN html.footnotes :
              Count(result.value, LineOf(html.footnotes[id]))
                  = Cardinality({p \in RefPaths(html) :
                                   IdAt(html, p) = id})

\* Witness: of two references scanned one missed the table, and the linker
\* has emitted the one line of the other.
C13_Witness ==
    /\ pc = "footnotes"
    /\ Linkable(html)
    /\ Cardinality(Misses(html)) = 1
    /\ Cardinality(Hits(html)) = 1
    /\ ~result.panicked
    /\ Len(result.value) = 1

---------------------------------------------------------------------------
(* C14 *)

\* C14 as stated: on the example chapter (a study-note-ref with a sup "a"
\* and no data-ref; table a: label <p>1a</p>, content the bare text
\* "Commentary.") the linker emits the one line [bold "1a", "Commentary."]
\* without a fatal error.
C14_ExampleLinked ==
    (pc = "footnotes" /\ html = ExampleChapter) =>
        /\ ~result.panicked
        /\ result.value = <<Line_from(<<Span_styled("1a", {BOLD}),
                                         Span_raw("Commentary.")>>)>>

\* C14 amended: on the example chapter the linker emits no line, without a
\* fatal error: the reference has no data-ref, so no id is scanned.
C14_ExampleEmitsNothing ==
    (pc = "footnotes" /\ html = ExampleChapter) =>
        /\ ~result.panicked
        /\ result.value = <<>>

\* Witness: the linker has returned from the example chapter.
C14_Witness ==
    /\ pc = "footnotes"
    /\ html = ExampleChapter
    /\ RefPaths(html) = {}
    /\ result = Return(<<>>)

---------------------------------------------------------------------------
(* C15 *)

Glyphs == { footnote_unicode(Some(l))[1] : l \in Letters }

VerseNodes(chapter) ==
    { NodeAt(TreeOf(chapter), p) :
        p \in { q \in Paths(TreeOf(chapter)) :
                  HasClass(NodeAt(TreeOf(chapter), q), "verse") } }

\* The glyphs of the sup children of a study-note-ref.
SupGlyphs(ref) ==
    { footnote_unicode(node_text(ref.children[i]))[1] :
        i \in { j \in 1..Len(ref.children) :
                  /\ tag_name(ref.children[j]) = "sup"
                  /\ footnote_unicode(node_text(ref.children[j])) # None } }

ChildrenOf(n) == { n.children[i] : i \in 1..Len(n.children) }

\* The glyphs of the references that are children of a verse, and of those
\* nested in a clarity-word child of a verse.
DirectGlyphs(chapter) ==
    UNION { SupGlyphs(c) :
              c \in { d \in UNION { ChildrenOf(v) :
                                      v \in VerseNodes(chapter) } :
                        HasClass(d, "study-note-ref") } }

NestedGlyphs(chapter) ==
    UNION { SupGlyphs(c) :
              c \in { d \in UNION { ChildrenOf(w) :
                          w \in { x \in UNION { ChildrenOf(v) :
                                      v \in VerseNodes(chapter) } :
                                    HasClass(x, "clarity-word") } } :
                        HasClass(d, "study-note-ref") } }

\* C15: in a rendered verse line the span of a footnote marker glyph is
\* italic when its study-note-ref is nested in a clarity-word child, and
\* unstyled when the study-note-ref is a direct child of the verse.
C15_GlyphItalicIffNested ==
    (pc = "text" /\ ~result.panicked) =>
        \A i \in 1..Len(result.value) :
            \A j \in 1..Len(result.value[i].spans) :
                LET span == result.value[i].spans[j]
                IN /\ span.content
                          \in NestedGlyphs(html) \ DirectGlyphs(html)
                        => span.style = {ITALIC}
                   /\ span.content
                          \in DirectGlyphs(html) \ NestedGlyphs(html)
                        => span.style = {}

---------------------------------------------------------------------------
(* C20 *)

BodyPaths(chapter) ==
    { p \in Paths(TreeOf(chapter)) :
        tag_name(NodeAt(TreeOf(chapter), p)) = "body" }

\* The body container: the first node, in document order, tagged body.
BodyPath(chapter) ==
    CHOOSE p \in BodyPaths(chapter) :
        \A q \in BodyPaths(chapter) : ~DocBefore(q, p)

VersePaths(chapter) ==
    { p \in Paths(TreeOf(chapter)) :
        /\ IsPrefix(BodyPath(chapter), p)
        /\ HasClass(NodeAt(TreeOf(chapter), p), "verse") }

HeaderPaths(chapter) ==
    { p \in Paths(TreeOf(chapter)) :
        /\ IsPrefix(BodyPath(chapter), p)
        /\ tag_name(NodeAt(TreeOf(chapter), p)) = "header" }

\* The number of lines the header gives: one for a title, one for a
\* subtitle, two for an introduction, three for a summary.
HeaderLineCount(chapter) ==
    IF HeaderPaths(chapter) = {}
    THEN 0
    ELSE LET header ==
                 NodeAt(TreeOf(chapter),
                        CHOOSE p \in HeaderPaths(chapter) :
                            \A q \in HeaderPaths(chapter) :
                                ~DocBefore(q, p))
             Has(P(_)) == \E c \in ChildrenOf(header) : P(c)
         IN (IF Has(LAMBDA c : HasId(c, "title1")) THEN 1 ELSE 0)
            + (IF Has(LAMBDA c : HasId(c, "subtitle1")) THEN 1 ELSE 0)
            + (IF Has(LAMBDA c : HasId(c, "intro1")) THEN 2 ELSE 0)
            + (IF Has(LAMBDA c : HasClass(c, "study-summary"))
               THEN 3 ELSE 0)

\* C20: for a chapter with a body container the renderer emits, after the
\* header lines, one verse line and one blank line for every descendant of
\* the body of class verse, in document order (2*V lines without header);
\* a chapter without body container gives the empty model.
C20_TwoLinesPerVerse ==
    (pc = "text" /\ Parses(html)) =>
        /\ ~result.panicked
        /\ BodyPaths(html) = {} => result.value = <<>>
        /\ BodyPaths(html) # {} =>
              /\ Len(result.value)
                     = HeaderLineCount(html)
                           + 2 * Cardinality(VersePaths(html))
              /\ \A p \in VersePaths(html) :
                    LET k == Rank(p, VersePaths(html))
                        at == HeaderLineCount(html) + 2 * k
                    IN /\ result.value[at - 1]
                              = verse_text(NodeAt(TreeOf(html), p)).value
                       /\ result.value[at] = Blank

---------------------------------------------------------------------------
(* C19 *)

\* C19: for the body-text viewport and for the footnote viewport alike, the
\* offset a ScrollDown reaches is bounded by the rows the render cycle
\* draws for the model minus the viewport height: the new offset is
\* min(offset + 1, max(0, rows drawn - height)).
C19_BoundUsesDrawnRows ==
    (~panicked /\ WellFormed) =>
        \A ev \in ScrollEvents("ScrollDown") :
            LET a == handle_mouse_events(ev, app)
            IN /\ (mouse_target(ev, app) = "text" /\ text_rect.width >= 1)
                    => a.text_scroll
                         = Min(text_scroll + 1,
                               Max(0, render_chapter_text_rows(app)
                                          - text_rect.height))
               /\ (mouse_target(ev, app) = "footnote"
                      /\ footnote_rect.width >= 1)
                    => a.footnote_scroll
                         = Min(footnote_scroll + 1,
                               Max(0, render_footnotes_rows(app)
                                          - footnote_rect.height))

---------------------------------------------------------------------------
(* C21 *)

\* C21: a scroll event changes at most one of the two scroll offsets, and
\* changes neither the selection indices, nor the active column, nor the
\* viewport rectangles.
C21_ScrollOffsetsIndependent ==
    ~panicked =>
        \A ev \in ScrollEvents("ScrollDown") \cup ScrollEvents("ScrollUp") :
            LET a == handle_mouse_events(ev, app)
            IN /\ a.text_scroll = text_scroll
                    \/ a.footnote_scroll = footnote_scroll
               /\ a.works_state = works_state
               /\ a.books_state = books_state
               /\ a.chapters_state = chapters_state
               /\ a.column_selected = column_selected
               /\ a.text_rect = text_rect
               /\ a.footnote_rect = footnote_rect

\* Witness: both offsets are above 0, so that a ScrollUp over either
\* viewport has an offset of the other viewport to leave alone.
C21_Witness ==
    /\ ~panicked
    /\ text_scroll > 0
    /\ footnote_scroll > 0
    /\ \E ev \in ScrollEvents("ScrollUp") :
          handle_mouse_events(ev, app).text_scroll # text_scroll
    /\ \E ev \in ScrollEvents("ScrollUp") :
          handle_mouse_events(ev, app).footnote_scroll # footnote_scroll

---------------------------------------------------------------------------
(* C22 *)

\* C22: the active column is 0, 1 or 2 in every reachable state, so the
\* unreachable!() arms of arrow_up and arrow_down are never taken.
C22_ColumnInRange == column_selected \in 0..(NUM_COLUMNS - 1)

\* Witness: the last column is active after Right has wrapped around once
\* (the selection was moved in the second column before).
C22_Witness ==
    /\ ~panicked
    /\ column_selected = NUM_COLUMNS - 1
    /\ books_state = 1
    /\ handle_key_events(Right, app).column_selected = 0

---------------------------------------------------------------------------
(* C23 *)

\* C23: Up and Down never change the active column nor a selection index
\* above it: with the book column active the work index stays, with the
\* chapter column active the work index and the book index stay.
C23_UpDownKeepsUpperIndices ==
    ~panicked =>
        \A key_event \in {Up, Down} :
            LET a == handle_key_events(key_event, app)
            IN /\ a.column_selected = column_selected
               /\ column_selected >= 1 => a.works_state = works_state
               /\ column_selected = 2 => a.books_state = books_state

\* Witness: the chapter column is active on the second chapter of the
\* second book, where Down changes the chapter.
C23_Witness ==
    /\ ~panicked
    /\ column_selected = 2
    /\ books_state = 1
    /\ chapters_state = 1
    /\ handle_key_events(Down, app).chapters_state # chapters_state

---------------------------------------------------------------------------
(* C24 *)

KeyEvents ==
    { KeyEvent(code, modifiers) :
          code \in KeyCodes, modifiers \in KeyModifiers }

\* Esc, 'q', and 'c' or 'C' with exactly the Control modifier.
QuitCommands ==
    { key_event \in KeyEvents :
          \/ key_event.code \in {"Esc", "q"}
          \/ key_event.code \in {"c", "C"}
               /\ key_event.modifiers = "CONTROL" }

\* A Quit command clears running and changes nothing else; no other key
\* event, no mouse event and no render changes running.
QuitOnlyClearsRunning ==
    /\ \A key_event \in QuitCommands :
          handle_key_events(key_event, app)
              = [app EXCEPT !.running = FALSE]
    /\ \A key_event \in KeyEvents \ QuitCommands :
          handle_key_events(key_event, app).running = running
    /\ \A kind \in MouseEventKinds :
          \A ev \in ScrollEvents(kind) :
              handle_mouse_events(ev, app).running = running
    /\ \A width \in FrameWidths, height \in FrameHeights :
          render(app, width, height).running = running

\* C24: running is true initially; a Quit command sets it to false and
\* changes nothing else; no other command changes it; once it is false no
\* later step makes it true again.
C24_QuitAbsorbing ==
    /\ running = TRUE
    /\ []QuitOnlyClearsRunning
    /\ [][running = FALSE => running' = FALSE]_vars

\* Witness: the application has been told to quit after the column, the
\* selection and the rectangles had moved away from their initial values.
C24_Witness ==
    /\ running = FALSE
    /\ ~panicked
    /\ column_selected = 1
    /\ works_state = 1
    /\ text_rect # Rect_default

---------------------------------------------------------------------------
(* C25 *)

\* C25: in every reachable state the ScrollDown arithmetic is exact in 16
\* bits: the wrapped row count of either viewport's model converted to u16
\* is the row count itself, and offset + 1 does not exceed 65535, also
\* while the rectangles are still the zero-sized ones of before the first
\* render.
C25_ScrollDownExact ==
    (~panicked /\ HasChapter(app)) =>
        /\ as_u16(line_count(chapter_text(app), text_rect.width))
             = line_count(chapter_text(app), text_rect.width)
        /\ as_u16(line_count(chapter_footnotes_text(app),
                             footnote_rect.width))
             = line_count(chapter_footnotes_text(app), footnote_rect.width)
        /\ text_scroll + 1 <= U16_MAX
        /\ footnote_scroll + 1 <= U16_MAX

---------------------------------------------------------------------------
(* C26 *)

\* C26: rendering a chapter whose markup parsed never ends in a fatal
\* error, whatever the children of its verses are: a verse-number or
\* para-mark child without direct text gives a span or is skipped.
C26_RenderNeverAborts ==
    (pc = "text" /\ Parses(html)) => ~result.panicked

===========================================================================
